---------------------------- MODULE Spec2Model ----------------------------
(***************************************************************************)
(* A model of plot_figures.py: the two figure builders fig1_mirror and     *)
(* fig2_distribution, the helper gauss, and the entry point that calls the *)
(* builders in sequence.                                                   *)
(*                                                                         *)
(* Real numbers (numpy float64) are represented in fixed point: the        *)
(* integer v stands for the real v / Scale.  Arrays are functions over     *)
(* 0 .. n-1, so that indices read as in the source.                        *)
(***************************************************************************)
EXTENDS Integers, Sequences, FiniteSets, TLC

(***************************************************************************)
(* Fixed-point arithmetic.                                                 *)
(***************************************************************************)
Scale == 10000

Pi == 31416

\* The element of a one-element set.  An intermediate result is computed
\* once by drawing it from the set that holds it.
The(set) == CHOOSE v \in set : TRUE

Abs(a) == IF a < 0 THEN -a ELSE a

Sgn(a) == IF a < 0 THEN -1 ELSE 1

\* Integer division rounded to the nearest integer (den > 0).
RoundDiv(num, den) ==
    The({Sgn(n) * ((2 * Abs(n) + den) \div (2 * den)) : n \in {num}})

\* a * b for fixed-point operands: |a| * |b| / Scale, truncated, with the
\* sign of the product.  The operands are split into their integral and
\* fractional parts, so that no intermediate product leaves the range of
\* 32-bit integers.
FMul(a, b) ==
    The({Sgn(u) * Sgn(v)
           * ((Abs(u) \div Scale) * Abs(v)
              + (Abs(u) % Scale) * (Abs(v) \div Scale)
              + (((Abs(u) % Scale) * (Abs(v) % Scale)) \div Scale)) :
            u \in {a}, v \in {b}})

\* a / b for fixed-point operands (b # 0), truncated.
FDiv(a, b) ==
    The({Sgn(u) * Sgn(v)
           * ((Abs(u) \div Abs(v)) * Scale
              + (((Abs(u) % Abs(v)) * Scale) \div Abs(v))) :
            u \in {a}, v \in {b}})

\* The fixed-point value of the decimal literal num / den.
Lit(num, den) == RoundDiv(num * Scale, den)

\* Sum of the series  term - term*z/k + term*z*z/(k(k+1)) - ...  for
\* 0 <= z: the tail of the Taylor series of exp(-z) from the term `term'
\* of degree k-1.
RECURSIVE ExpSeries(_, _, _)
ExpSeries(z, term, k) ==
    IF term = 0 THEN 0
    ELSE term - The({ExpSeries(z, next, k + 1) :
                        next \in {FMul(term, z) \div k}})

\* exp(-z) for z >= 0: the argument is halved until it is at most 1/2,
\* the Taylor series is summed there, and the result squared back.
RECURSIVE ExpNeg(_)
ExpNeg(z) ==
    IF 2 * z <= Scale
    THEN ExpSeries(z, Scale, 1)
    ELSE The({IF z % 2 = 0 THEN FMul(h, h)
              ELSE FMul(FMul(h, h), ExpSeries(1, Scale, 1)) :
                 h \in {ExpNeg(z \div 2)}})

\* np.exp on a non-positive argument.
Exp(x) == ExpNeg(-x)

\* np.tanh: odd, and for x >= 0 equal to (1 - exp(-2x)) / (1 + exp(-2x)).
Tanh(x) ==
    The({Sgn(x) * FDiv(Scale - e, Scale + e) : e \in {ExpNeg(2 * Abs(x))}})

\* Sum of the series  term - term*y*y/(k(k+1)) + ...: the tail of the Taylor
\* series of sin from the term `term' of degree k-1.
RECURSIVE SinSeries(_, _, _)
SinSeries(y, term, k) ==
    IF term = 0 THEN 0
    ELSE term - The({SinSeries(y, next, k + 2) :
                        next \in {FMul(FMul(term, y), y) \div (k * (k + 1))}})

\* np.sin: the argument is reduced to [-pi, pi], then folded to
\* [-pi/2, pi/2], and the Taylor series is summed there.
Sin(x) ==
    The({Sgn(x) * Sgn(f) * SinSeries(Abs(f), Abs(f), 2) :
            f \in {IF 2 * r > Pi THEN Pi - r
                   ELSE IF 2 * r < -Pi THEN -Pi - r
                   ELSE r : r \in {((Abs(x) + Pi) % (2 * Pi)) - Pi}}})

\* The largest s with s * s <= n, searched in lo .. hi.
RECURSIVE ISqrt(_, _, _)
ISqrt(n, lo, hi) ==
    IF lo >= hi THEN lo
    ELSE The({IF mid * mid <= n THEN ISqrt(n, mid, hi)
              ELSE ISqrt(n, lo, mid - 1) : mid \in {(lo + hi + 1) \div 2}})

\* np.sqrt of a fixed-point value v >= 0 (v / Scale below 21).
Sqrt(v) == ISqrt(v * Scale, 0, 5 * Scale)

\* The slip x + mu for x - mu.
gaussSignSlip(x, mu, sigma) ==
    The({FDiv(Exp(-(FMul(q, q) \div 2)), FMul(sigma, Sqrt(2 * Pi))) :
            q \in {FDiv(x + mu, sigma)}})

\* gauss(x, mu, sigma), source line 27.
gauss(x, mu, sigma) ==
    The({FDiv(Exp(-(FMul(q, q) \div 2)), FMul(sigma, Sqrt(2 * Pi))) :
            q \in {FDiv(x - mu, sigma)}})

\* np.linspace(start, stop, num): num evenly spaced samples, ends included.
linspace(start, stop, num) ==
    [i \in 0 .. num - 1 |-> start + RoundDiv(i * (stop - start), num - 1)]


(***************************************************************************)
(* Arrays (numpy.ndarray of float64) are functions over 0 .. n-1.          *)
(***************************************************************************)
len(a) == Cardinality(DOMAIN a)

\* A one-element array holding v, and the array of the elements of a tuple.
Arr1(v) == [i \in 0 .. 0 |-> v]

ArrOf(s) == [i \in 0 .. Len(s) - 1 |-> s[i + 1]]

\* slice(None, None, -1).indices(n): the start of the slice a[::-1].
\* The slice then has n elements, taken at start, start - 1, ..., 0.
ReverseSliceStart(n) == n - 1

\* The slip a.copy(): the slice [::-1] forgotten.
PlainCopy(a) == [k \in 0 .. len(a) - 1 |-> a[k]]

\* a[::-1].copy(): a fresh array holding the elements of a, last to first.
ReverseCopy(a) ==
    [k \in 0 .. len(a) - 1 |-> a[ReverseSliceStart(len(a)) - k]]

\* np.full_like(a, v)
full_like(a, v) == [i \in DOMAIN a |-> v]

\* max(x, y) of Python
Max(x, y) == IF y > x THEN y ELSE x

\* a.max(): the greatest element, found over a[lo .. hi] by halving.
RECURSIVE MaxIn(_, _, _)
MaxIn(a, lo, hi) ==
    IF lo = hi THEN a[lo]
    ELSE The({Max(l, r) : l \in {MaxIn(a, lo, (lo + hi) \div 2)},
                          r \in {MaxIn(a, ((lo + hi) \div 2) + 1, hi)}})

ArrMax(a) == MaxIn(a, 0, len(a) - 1)

\* np.argmin(a): the first index holding the least element, found over
\* a[lo .. hi] by halving; of two equal elements the earlier one wins.
RECURSIVE ArgMinIn(_, _, _)
ArgMinIn(a, lo, hi) ==
    IF lo = hi THEN lo
    ELSE The({IF a[r] < a[l] THEN r ELSE l :
                 l \in {ArgMinIn(a, lo, (lo + hi) \div 2)},
                 r \in {ArgMinIn(a, ((lo + hi) \div 2) + 1, hi)}})

argmin(a) == ArgMinIn(a, 0, len(a) - 1)

(***************************************************************************)
(* The numbers of the program.                                             *)
(***************************************************************************)
GridN == 800

\* t = np.linspace(-3, 3, 800), line 37
GridT == linspace(-3 * Scale, 3 * Scale, GridN)

\* 2.0 + 0.8 * np.tanh(0.5 * t) + 0.06 * np.sin(3.5 * t), line 40
MirrorProfile(tt) ==
    [i \in DOMAIN tt |->
        2 * Scale
        + FMul(Lit(8, 10), Tanh(FMul(Lit(5, 10), tt[i])))
        + FMul(Lit(6, 100), Sin(FMul(Lit(35, 10), tt[i])))]

ProfileA == MirrorProfile(GridT)

\* xr = 1.6, line 53
Xr == Lit(16, 10)

\* np.argmin(np.abs(t - xr)), line 54
Nearest(tt, xr) ==
    The({argmin(d) : d \in {[i \in DOMAIN tt |-> Abs(tt[i] - xr)]}})

\* S0 + a * np.sin(0.9 * t + ph), line 84
Texture(tt, s0, a, ph) ==
    [i \in DOMAIN tt |-> s0 + FMul(a, Sin(FMul(Lit(9, 10), tt[i]) + ph))]

\* the (a, ph) pairs of line 83
TextureParams ==
    << <<Lit(35, 100), 0>>, <<-Lit(28, 100), Lit(11, 10)>>,
       <<Lit(22, 100), Lit(25, 10)>> >>

\* gauss applied elementwise to an array
gaussArr(xs, mu, sigma) == [i \in DOMAIN xs |-> gauss(xs[i], mu, sigma)]

\* S = np.linspace(-1, 9, 800), line 124
GridS == linspace(-1 * Scale, 9 * Scale, GridN)

\* S_b = np.linspace(-2, 10, 800), line 156
GridSb == linspace(-2 * Scale, 10 * Scale, GridN)

\* the literals of fig2_distribution
Mu1 == 4 * Scale

Shift == Lit(15, 10)

Sigma1 == Lit(8, 10)

S_max == 8 * Scale

S_lo == 1 * Scale

S_hi == Lit(45, 10)

sigma_unc == Lit(5, 10)

w_lo == Lit(62, 100)

w_hi == Lit(38, 100)

\* P1, P2 of lines 127, 129 and P1b, P2b of lines 162, 165
CurveP1 == gaussArr(GridS, Mu1, Sigma1)

CurveP2 == gaussArr(GridS, Mu1 + Shift, Sigma1)

CurveP1b == gaussArr(GridSb, S_max, sigma_unc)

CurveP2b ==
    [i \in DOMAIN GridSb |->
        FMul(w_lo, gauss(GridSb[i], S_lo, Lit(5, 10)))
        + FMul(w_hi, gauss(GridSb[i], S_hi, Lit(5, 10)))]

(***************************************************************************)
(* The files, the console and the figures.                                 *)
(***************************************************************************)
MirrorPdf == "fig_mirror_paradox.pdf"

\* The slip of saving the second figure under the name of the first.
DistributionPdfPasted == "fig_mirror_paradox.pdf"

DistributionPdf == "fig_distribution_change.pdf"

\* A file of the working directory that the program does not name.
OtherFile == "entropy.tex"

FileNames == {MirrorPdf, DistributionPdf, OtherFile}

Fig1 == "fig1_mirror"

Fig2 == "fig2_distribution"

\* One drawn element of a figure: the panel, the drawing call, its text and
\* its data.
Artist(ax, kind, label, xs, ys) ==
    [ax |-> ax, kind |-> kind, label |-> label, xs |-> xs, ys |-> ys]

NoData == Arr1(0)

\* A file that was in the directory before the program ran.
StaleFile == [created |-> 0, complete |-> TRUE, rc |-> "stale", page |-> <<>>]

\* What a completed savefig leaves in the file: the figure's page as
\* rendered under the rcParams in effect, and the PDF's CreationDate.
PdfOf(page, rc, now) ==
    [created |-> now, complete |-> TRUE, rc |-> rc, page |-> page]

\* What a savefig leaves when writing fails after the file was opened.
TruncatedPdf(now) ==
    [created |-> now, complete |-> FALSE, rc |-> "none", page |-> <<>>]

\* The slip of opening with mode 'xb' and skipping a file that exists.
WriteFileIfAbsent(files, name, content) ==
    [f \in DOMAIN files \cup {name} |->
        IF f \in DOMAIN files THEN files[f] ELSE content]

\* open(name, 'wb') and write: the file is created or replaced.
WriteFile(files, name, content) ==
    [f \in DOMAIN files \cup {name} |-> IF f = name THEN content ELSE files[f]]

\* pyplot's next figure number: one more than the largest open number.
MaxNum(nums) ==
    IF nums = {} THEN 0
    ELSE LET n == CHOOSE n \in nums : \A m \in nums : m <= n IN n

NextNum(registry) == MaxNum(DOMAIN registry) + 1

\* plt.subplots: a new, empty figure registered under the next number.
NewFigure(registry) ==
    [n \in DOMAIN registry \cup {NextNum(registry)} |->
        IF n \in DOMAIN registry THEN registry[n] ELSE <<>>]

\* Drawing calls append to the figure's page.
Draw(registry, num, artists) ==
    [registry EXCEPT ![num] = @ \o artists]

\* The slip of leaving the figure open.
CloseNothing(registry, num) == registry

\* plt.close(fig)
CloseFigure(registry, num) ==
    [n \in DOMAIN registry \ {num} |-> registry[n]]

(***************************************************************************)
(* The state.                                                              *)
(*   pc, calls, asMain  where the interpreter stands, the builders still   *)
(*                      to be called, and whether the module runs as the   *)
(*                      main program (lines 202-204) or is imported        *)
(*   rcParams, figs     matplotlib's settings and its open figures         *)
(*   fig .. pk_blue     the local variables of the two builders            *)
(*   fs, console        the working directory and the standard output      *)
(*   readOnly, clock    the environment: whether the directory refuses     *)
(*                      writes, and the time                               *)
(*   run, prevRun,      the number of this run, what the run before it     *)
(*   fsAtStart          left behind, and the directory as this run found it*)
(*   trace, fsAtCall    the calls made so far in this run, and the         *)
(*                      directory as it was when the running builder was   *)
(*                      called                                             *)
(*   probe              the arguments and result of a call of gauss        *)
(***************************************************************************)
VARIABLES pc, calls, asMain, rcParams, figs, fig,
          t, i0, S_A, S_B, S0,
          S, P1, P2, pk, y_top, S_b, P1b, P2b, y2_max, pk_blue,
          fs, console, readOnly, clock, run, prevRun, fsAtStart, trace,
          fsAtCall, probe

fig1Locals == <<t, i0, S_A, S_B, S0>>

fig2Locals == <<S, P1, P2, pk, y_top, S_b, P1b, P2b, y2_max, pk_blue>>

control == <<calls, asMain, run, prevRun, fsAtStart>>

environment == <<readOnly, clock>>

vars == <<pc, calls, asMain, rcParams, figs, fig, fig1Locals, fig2Locals,
          fs, console, readOnly, clock, run, prevRun, fsAtStart, trace,
          fsAtCall, probe>>

\* The program is run at most MaxRuns times, and the clock reads at most
\* MaxClock.
MaxRuns == 2

MaxClock == 2

\* An unbound array-valued local, and an unbound number.
Unbound == <<>>

NoNumber == 0 * Scale

NoProbe == [x |-> 0, mu |-> 0, sigma |-> Scale, val |-> 0, called |-> FALSE]

Event(ev, by, arg) == [ev |-> ev, by |-> by, arg |-> arg]

\* The interpreter starts: nothing imported, no figure, no output.
FreshProcess ==
    /\ pc = "import"
    /\ rcParams = "default"
    /\ figs = <<>>
    /\ fig = 0
    /\ t = Unbound /\ i0 = 0 /\ S_A = Unbound /\ S_B = Unbound /\ S0 = NoNumber
    /\ S = Unbound /\ P1 = Unbound /\ P2 = Unbound /\ pk = NoNumber
    /\ y_top = NoNumber /\ S_b = Unbound /\ P1b = Unbound /\ P2b = Unbound
    /\ y2_max = NoNumber /\ pk_blue = NoNumber
    /\ console = <<>>
    /\ trace = <<>>

\* Run as the main program the module calls fig1_mirror, then
\* fig2_distribution (lines 203, 204); imported, the importer calls the
\* builders it wants.
\* The slip of calling the builders in the other order.
MainCallsSwapped == <<Fig2, Fig1>>

MainCalls == <<Fig1, Fig2>>

CallOrders(main) ==
    IF main THEN {MainCalls}
    ELSE {<<Fig1>>, <<Fig2>>, <<Fig2, Fig1>>}

\* The directories the program may find.
InitialDirs ==
    {d \in [FileNames -> {"absent", "stale"}] : d[OtherFile] = "stale"}

DirOf(d) == [f \in {g \in FileNames : d[g] = "stale"} |-> StaleFile]

Init ==
    /\ FreshProcess
    /\ asMain \in BOOLEAN
    /\ calls \in CallOrders(asMain)
    /\ \E d \in InitialDirs : fs = DirOf(d)
    /\ fsAtCall = fs
    /\ fsAtStart = fs
    /\ readOnly \in BOOLEAN
    /\ clock = 1
    /\ run = 1
    /\ prevRun = <<>>
    /\ probe = NoProbe

(***************************************************************************)
(* Module level.                                                           *)
(***************************************************************************)
\* lines 8-23: the imports and plt.rcParams.update
Import ==
    /\ pc = "import"
    /\ rcParams' = "usetex"
    /\ pc' = "call"
    /\ UNCHANGED <<figs, fig, fig1Locals, fig2Locals, fs, console, control,
                   environment, trace, fsAtCall, probe>>

\* The next builder of the call order, as named by the caller.
CallTarget(order) ==
    IF order = <<>> THEN "done"
    ELSE IF Head(order) = Fig1 THEN "f1_subplots" ELSE "f2_subplots"

\* lines 203-204 (or the importer): call the next builder, or end.
Call ==
    /\ pc = "call"
    /\ pc' = CallTarget(calls)
    /\ calls' = IF calls = <<>> THEN calls ELSE Tail(calls)
    /\ fsAtCall' = fs
    /\ UNCHANGED <<asMain, run, prevRun, fsAtStart, rcParams, figs, fig,
                   fig1Locals, fig2Locals, fs, console, environment, trace,
                   probe>>

(***************************************************************************)
(* fig1_mirror                                                             *)
(***************************************************************************)
\* lines 34-35: fig, (ax1, ax2) = plt.subplots(...)
Fig1Subplots ==
    /\ pc = "f1_subplots"
    /\ figs' = NewFigure(figs)
    /\ fig' = NextNum(figs)
    /\ trace' = Append(trace, Event("figure", Fig1, "fig"))
    /\ pc' = "f1_arrays"
    /\ UNCHANGED <<rcParams, fig1Locals, fig2Locals, fs, console, control,
                   environment, fsAtCall, probe>>

\* lines 37-42: the grid, the profile and its mirror image
Fig1Arrays ==
    /\ pc = "f1_arrays"
    /\ t' = GridT
    /\ i0' = len(t') \div 2
    /\ S_A' = ProfileA
    /\ S_B' = ReverseCopy(S_A')
    /\ S0' = S_A'[i0']
    /\ pc' = "f1_panel_a"
    /\ UNCHANGED <<rcParams, figs, fig, fig2Locals, fs, console, control,
                   environment, trace, fsAtCall, probe>>

\* lines 45-77: panel (a)
Fig1PanelAArtists(tt, sa, sb, s0, xr, ir) ==
        << Artist(1, "plot", "S_A(t)", tt, sa),
           Artist(1, "plot", "S_B(t)=S_A(2t_0-t)", tt, sb),
           Artist(1, "plot", "ko", Arr1(0), Arr1(s0)),
           Artist(1, "axvline", "", Arr1(0), NoData),
           Artist(1, "text", "t_0", Arr1(Lit(15, 100)), Arr1(s0 - Lit(18, 100))),
           Artist(1, "annotate", "Delta S_A >= 0",
                  ArrOf(<<xr, Lit(205, 100)>>),
                  ArrOf(<<sa[ir], s0 - Lit(35, 100)>>)),
           Artist(1, "annotate", "Delta S_B >= 0 ?",
                  ArrOf(<<xr, Lit(205, 100)>>),
                  ArrOf(<<sb[ir], s0 + Lit(30, 100)>>)),
           Artist(1, "text", "S_A(t_0)=S_B(t_0)", Arr1(0), Arr1(s0 + Lit(58, 100))),
           Artist(1, "labels", "(a) Mirror-state construction", NoData, NoData),
           Artist(1, "xlim", "", ArrOf(<<-3 * Scale, Lit(35, 10)>>), NoData) >>

Fig1PanelA ==
    /\ pc = "f1_panel_a"
    /\ figs' = Draw(figs, fig, Fig1PanelAArtists(t, S_A, S_B, S0, Xr, Nearest(t, Xr)))
    /\ pc' = "f1_panel_b"
    /\ UNCHANGED <<rcParams, fig, fig1Locals, fig2Locals, fs, console, control,
                   environment, trace, fsAtCall, probe>>

\* lines 87-92: for ti in np.linspace(-2, 2, 5): a dot and a shallow V
Fig1Markers(s0) ==
    LET ts == linspace(-2 * Scale, 2 * Scale, 5)
        d  == Lit(25, 100)
        Dot(ti) == Artist(2, "plot", "ko", Arr1(ti), Arr1(s0))
        Vee(ti) == Artist(2, "plot", "V", ArrOf(<<ti - d, ti, ti + d>>),
                          ArrOf(<<s0 + Lit(12, 100), s0, s0 + Lit(12, 100)>>))
    IN  << Dot(ts[0]), Vee(ts[0]), Dot(ts[1]), Vee(ts[1]), Dot(ts[2]),
           Vee(ts[2]), Dot(ts[3]), Vee(ts[3]), Dot(ts[4]), Vee(ts[4]) >>

\* lines 80-108: panel (b)
Fig1PanelBArtists(tt, s0) ==
    << Artist(2, "plot", "S(t)=const", tt, full_like(tt, s0)) >>
    \o [k \in 1 .. Len(TextureParams) |->
          Artist(2, "plot", "", tt,
                 Texture(tt, s0, TextureParams[k][1], TextureParams[k][2]))]
    \o Fig1Markers(s0)
    \o << Artist(2, "text", "Every point is a two-sided local minimum",
                 Arr1(0), Arr1(s0 - Lit(50, 100))),
          Artist(2, "text", "=> continuous S(t) must be constant.",
                 Arr1(0), Arr1(s0 - Lit(66, 100))),
          Artist(2, "labels", "(b) Consequence of universal monotonicity",
                 NoData, NoData),
          Artist(2, "xlim", "", ArrOf(<<-3 * Scale, 3 * Scale>>), NoData),
          Artist(2, "ylim", "", NoData,
                 ArrOf(<<s0 - Lit(85, 100), s0 + Lit(85, 100)>>)) >>

Fig1PanelB ==
    /\ pc = "f1_panel_b"
    /\ figs' = Draw(figs, fig, Fig1PanelBArtists(t, S0))
    /\ pc' = "f1_savefig"
    /\ UNCHANGED <<rcParams, fig, fig1Locals, fig2Locals, fs, console, control,
                   environment, trace, fsAtCall, probe>>

(***************************************************************************)
(* Saving, closing and reporting: lines 110-112 and 197-199.               *)
(***************************************************************************)
\* How fig.savefig may end.  In a directory that refuses writes the file
\* cannot be opened.  Elsewhere the save completes, or typesetting the text
\* fails before the file is opened, or writing fails after it was opened.
SaveOutcomes(ro) ==
    IF ro THEN {"PermissionError"} ELSE {"ok", "RuntimeError", "OSError"}

\* The directory after fig.savefig(name, ...) ended with `outcome'.
AfterSave(files, name, page, rc, now, outcome) ==
    CASE outcome = "ok"      -> WriteFile(files, name, PdfOf(page, rc, now))
      [] outcome = "OSError" -> WriteFile(files, name, TruncatedPdf(now))
      [] OTHER               -> files

\* The event a savefig leaves in the trace.
SaveEvent(by, name, outcome) ==
    IF outcome = "ok" THEN Event("savefig", by, name)
    ELSE Event("raise", by, name)

\* The slip of catching the exception and going on, and the slip of trying
\* the save again.
AfterSavePcSwallowed(savePc, closePc, outcome) == closePc

AfterSavePcRetried(savePc, closePc, outcome) ==
    IF outcome = "ok" THEN closePc ELSE savePc

\* An exception leaves the builder and, uncaught, ends the program.
AfterSavePc(savePc, closePc, outcome) ==
    IF outcome = "ok" THEN closePc ELSE "crashed"

\* The slip of printing the line of line 112 at line 199 as well.
Fig2LinePasted == "Saved fig_mirror_paradox.pdf"

\* The literals printed at lines 112 and 199.
Fig1Line == "Saved fig_mirror_paradox.pdf"

Fig2Line == "Saved fig_distribution_change.pdf"

\* line 110: fig.savefig('fig_mirror_paradox.pdf', bbox_inches='tight')
Fig1Savefig ==
    /\ pc = "f1_savefig"
    /\ \E outcome \in SaveOutcomes(readOnly), now \in clock .. MaxClock :
          /\ clock' = now
          /\ fs' = AfterSave(fs, MirrorPdf, figs[fig], rcParams, now, outcome)
          /\ trace' = Append(trace, SaveEvent(Fig1, MirrorPdf, outcome))
          /\ pc' = AfterSavePc("f1_savefig", "f1_close", outcome)
    /\ UNCHANGED <<rcParams, figs, fig, fig1Locals, fig2Locals, console,
                   control, readOnly, fsAtCall, probe>>

\* line 111: plt.close(fig)
Fig1Close ==
    /\ pc = "f1_close"
    /\ figs' = CloseFigure(figs, fig)
    /\ trace' = Append(trace, Event("close", Fig1, "fig"))
    /\ pc' = "f1_print"
    /\ UNCHANGED <<rcParams, fig, fig1Locals, fig2Locals, fs, console, control,
                   environment, fsAtCall, probe>>

\* line 112: print(...), and the return, which drops the locals
Fig1Print ==
    /\ pc = "f1_print"
    /\ console' = Append(console, Fig1Line)
    /\ trace' = Append(trace, Event("print", Fig1, Fig1Line))
    /\ fig' = 0
    /\ t' = Unbound /\ i0' = 0 /\ S_A' = Unbound /\ S_B' = Unbound
    /\ S0' = NoNumber
    /\ pc' = "call"
    /\ UNCHANGED <<rcParams, figs, fig2Locals, fs, control, environment,
                   fsAtCall, probe>>

(***************************************************************************)
(* fig2_distribution                                                       *)
(***************************************************************************)
\* lines 121-122: fig, (ax1, ax2) = plt.subplots(...)
Fig2Subplots ==
    /\ pc = "f2_subplots"
    /\ figs' = NewFigure(figs)
    /\ fig' = NextNum(figs)
    /\ trace' = Append(trace, Event("figure", Fig2, "fig"))
    /\ pc' = "f2_panel_a"
    /\ UNCHANGED <<rcParams, fig1Locals, fig2Locals, fs, console, control,
                   environment, fsAtCall, probe>>

\* lines 131-152: the drawing calls of panel (a)
Fig2PanelAArtists(ss, p1, p2, peak, top) ==
    << Artist(1, "plot", "P(S;lambda_1)", ss, p1),
       Artist(1, "fill_between", "", ss, p1),
       Artist(1, "plot", "P(S;lambda_2)", ss, p2),
       Artist(1, "fill_between", "", ss, p2),
       Artist(1, "ylim", "", NoData, ArrOf(<<0, top>>)),
       Artist(1, "annotate", "",
              ArrOf(<<Mu1 + Shift, Mu1>>),
              ArrOf(<<FMul(peak, Lit(104, 100)), FMul(peak, Lit(104, 100))>>)),
       Artist(1, "text", "k_B ln c", Arr1(Mu1 + (Shift \div 2)),
              Arr1(FMul(peak, Lit(110, 100)))),
       Artist(1, "labels", "(a) Translation only (common scaling)",
              NoData, NoData) >>

\* lines 124-152: the grid, the two translated densities and panel (a)
Fig2PanelA ==
    /\ pc = "f2_panel_a"
    /\ S' = GridS
    /\ P1' = CurveP1
    /\ P2' = CurveP2
    /\ pk' = gauss(Mu1, Mu1, Sigma1)
    /\ y_top' = FMul(Max(ArrMax(P1'), ArrMax(P2')), Lit(135, 100))
    /\ figs' = Draw(figs, fig, Fig2PanelAArtists(S', P1', P2', pk', y_top'))
    /\ pc' = "f2_panel_b"
    /\ UNCHANGED <<rcParams, fig, fig1Locals, S_b, P1b, P2b, y2_max, pk_blue,
                   fs, console, control, environment, trace, fsAtCall, probe>>

\* lines 167-195: the drawing calls of panel (b)
Fig2PanelBArtists(sb, p1b, p2b, top, peak) ==
    LET hi == FMul(w_hi, gauss(S_hi, S_hi, Lit(5, 10)))
    IN  << Artist(2, "plot", "P(S;lambda_1)", sb, p1b),
           Artist(2, "fill_between", "", sb, p1b),
           Artist(2, "plot", "P(S;lambda_2)", sb, p2b),
           Artist(2, "fill_between", "", sb, p2b),
           Artist(2, "ylim", "", NoData, ArrOf(<<0, top>>)),
           Artist(2, "annotate", "S_max (unconstrained)",
                  ArrOf(<<S_max, S_max>>),
                  ArrOf(<<peak, FMul(peak, Lit(122, 100))>>)),
           Artist(2, "annotate", "(high S peak lower)",
                  ArrOf(<<S_hi, Lit(32, 10)>>),
                  ArrOf(<<hi, FMul(hi, Lit(135, 100))>>)),
           Artist(2, "labels", "(b) Structural change (constraint-reshaped)",
                  NoData, NoData) >>

\* lines 156-195: the second grid, the two densities and panel (b)
Fig2PanelB ==
    /\ pc = "f2_panel_b"
    /\ S_b' = GridSb
    /\ P1b' = CurveP1b
    /\ P2b' = CurveP2b
    /\ y2_max' = FMul(Max(ArrMax(P1b'), ArrMax(P2b')), Lit(14, 10))
    /\ pk_blue' = gauss(S_max, S_max, sigma_unc)
    /\ figs' = Draw(figs, fig,
                    Fig2PanelBArtists(S_b', P1b', P2b', y2_max', pk_blue'))
    /\ pc' = "f2_savefig"
    /\ UNCHANGED <<rcParams, fig, fig1Locals, S, P1, P2, pk, y_top,
                   fs, console, control, environment, trace, fsAtCall, probe>>

\* line 197: fig.savefig('fig_distribution_change.pdf', bbox_inches='tight')
Fig2Savefig ==
    /\ pc = "f2_savefig"
    /\ \E outcome \in SaveOutcomes(readOnly), now \in clock .. MaxClock :
          /\ clock' = now
          /\ fs' = AfterSave(fs, DistributionPdf, figs[fig], rcParams, now,
                             outcome)
          /\ trace' = Append(trace, SaveEvent(Fig2, DistributionPdf, outcome))
          /\ pc' = AfterSavePc("f2_savefig", "f2_close", outcome)
    /\ UNCHANGED <<rcParams, figs, fig, fig1Locals, fig2Locals, console,
                   control, readOnly, fsAtCall, probe>>

\* line 198: plt.close(fig)
Fig2Close ==
    /\ pc = "f2_close"
    /\ figs' = CloseFigure(figs, fig)
    /\ trace' = Append(trace, Event("close", Fig2, "fig"))
    /\ pc' = "f2_print"
    /\ UNCHANGED <<rcParams, fig, fig1Locals, fig2Locals, fs, console, control,
                   environment, fsAtCall, probe>>

\* line 199: print(...), and the return, which drops the locals
Fig2Print ==
    /\ pc = "f2_print"
    /\ console' = Append(console, Fig2Line)
    /\ trace' = Append(trace, Event("print", Fig2, Fig2Line))
    /\ fig' = 0
    /\ S' = Unbound /\ P1' = Unbound /\ P2' = Unbound /\ pk' = NoNumber
    /\ y_top' = NoNumber /\ S_b' = Unbound /\ P1b' = Unbound
    /\ P2b' = Unbound /\ y2_max' = NoNumber /\ pk_blue' = NoNumber
    /\ pc' = "call"
    /\ UNCHANGED <<rcParams, figs, fig1Locals, fs, control, environment,
                   fsAtCall, probe>>

(***************************************************************************)
(* The program is run again in the same directory.                         *)
(***************************************************************************)
Ended == pc \in {"done", "crashed"}

RunAgain ==
    /\ Ended
    /\ asMain
    /\ run < MaxRuns
    /\ run' = run + 1
    /\ prevRun' = <<[fs |-> fs, console |-> console, ok |-> pc = "done"]>>
    /\ pc' = "import"
    /\ rcParams' = "default"
    /\ figs' = <<>>
    /\ fig' = 0
    /\ t' = Unbound /\ i0' = 0 /\ S_A' = Unbound /\ S_B' = Unbound
    /\ S0' = NoNumber
    /\ S' = Unbound /\ P1' = Unbound /\ P2' = Unbound /\ pk' = NoNumber
    /\ y_top' = NoNumber /\ S_b' = Unbound /\ P1b' = Unbound
    /\ P2b' = Unbound /\ y2_max' = NoNumber /\ pk_blue' = NoNumber
    /\ console' = <<>>
    /\ trace' = <<>>
    /\ calls' = MainCalls
    /\ fsAtCall' = fs
    /\ fsAtStart' = fs
    /\ UNCHANGED <<asMain, fs, environment, probe>>

Next ==
    \/ Import
    \/ Call
    \/ Fig1Subplots
    \/ Fig1Arrays
    \/ Fig1PanelA
    \/ Fig1PanelB
    \/ Fig1Savefig
    \/ Fig1Close
    \/ Fig1Print
    \/ Fig2Subplots
    \/ Fig2PanelA
    \/ Fig2PanelB
    \/ Fig2Savefig
    \/ Fig2Close
    \/ Fig2Print
    \/ RunAgain

Spec == Init /\ [][Next]_vars

(***************************************************************************)
(* gauss on its own: the arguments are drawn from the calls the program    *)
(* makes and from a bounded grid of further arguments, and the one action  *)
(* is the call.                                                            *)
(***************************************************************************)
MaxAbsX == 6

MaxSigma == 4

\* gauss as the program calls it: lines 127, 129, 138, 162, 165, 178, 185
ProgramGaussCalls ==
    {<<GridS[i], Mu1, Sigma1>> : i \in DOMAIN GridS}
    \cup {<<GridS[i], Mu1 + Shift, Sigma1>> : i \in DOMAIN GridS}
    \cup {<<GridSb[i], S_max, sigma_unc>> : i \in DOMAIN GridSb}
    \cup {<<GridSb[i], S_lo, Lit(5, 10)>> : i \in DOMAIN GridSb}
    \cup {<<GridSb[i], S_hi, Lit(5, 10)>> : i \in DOMAIN GridSb}
    \cup {<<Mu1, Mu1, Sigma1>>, <<S_max, S_max, sigma_unc>>,
          <<S_hi, S_hi, Lit(5, 10)>>}

\* x and mu in steps of 1/2 up to MaxAbsX, sigma in steps of 1/4 up to
\* MaxSigma / 4
BoundedGaussCalls ==
    {<<x * (Scale \div 2), m * (Scale \div 2), s * (Scale \div 4)>> :
        x \in -2 * MaxAbsX .. 2 * MaxAbsX, m \in -2 * MaxAbsX .. 2 * MaxAbsX,
        s \in 1 .. MaxSigma}

InitGauss ==
    /\ FreshProcess
    /\ asMain = TRUE
    /\ calls = MainCalls
    /\ fs = DirOf([f \in FileNames |-> "stale"])
    /\ fsAtCall = fs
    /\ fsAtStart = fs
    /\ readOnly = FALSE
    /\ clock = 1
    /\ run = 1
    /\ prevRun = <<>>
    /\ \E c \in ProgramGaussCalls \cup BoundedGaussCalls :
          probe = [x |-> c[1], mu |-> c[2], sigma |-> c[3], val |-> 0,
                   called |-> FALSE]

CallGauss ==
    /\ ~probe.called
    /\ probe' = [probe EXCEPT !.val = gauss(probe.x, probe.mu, probe.sigma),
                              !.called = TRUE]
    /\ UNCHANGED <<pc, rcParams, figs, fig, fig1Locals, fig2Locals, fs,
                   console, control, environment, trace, fsAtCall>>

NextGauss == CallGauss

SpecGauss == InitGauss /\ [][NextGauss]_vars

(***************************************************************************)
(* Vocabulary of the properties.                                           *)
(***************************************************************************)
Bound(a) == DOMAIN a # {}

\* The events of one kind in this run's trace, and the events of a builder.
EventsOf(ev) == SelectSeq(trace, LAMBDA e : e.ev = ev)

EventsBy(by) == SelectSeq(trace, LAMBDA e : e.by = by)

KindsBy(by) == [k \in 1 .. Len(EventsBy(by)) |-> EventsBy(by)[k].ev]

\* The files saved in this run, in the order of their saves.
SavedFiles == [k \in 1 .. Len(EventsOf("savefig")) |-> EventsOf("savefig")[k].arg]

\* The saves attempted by a builder in this run, completed or not.
SaveAttempts(by) ==
    Len(SelectSeq(trace, LAMBDA e : e.by = by /\ e.ev \in {"savefig", "raise"}))

Raised(by) == \E k \in 1 .. Len(trace) : trace[k].ev = "raise" /\ trace[k].by = by

InFig1 == pc \in {"f1_subplots", "f1_arrays", "f1_panel_a", "f1_panel_b",
                  "f1_savefig", "f1_close", "f1_print"}

InFig2 == pc \in {"f2_subplots", "f2_panel_a", "f2_panel_b", "f2_savefig",
                  "f2_close", "f2_print"}

\* A step of the program itself, as opposed to running it again.
ProgramStep ==
    \/ Import \/ Call
    \/ Fig1Subplots \/ Fig1Arrays \/ Fig1PanelA \/ Fig1PanelB
    \/ Fig1Savefig \/ Fig1Close \/ Fig1Print
    \/ Fig2Subplots \/ Fig2PanelA \/ Fig2PanelB
    \/ Fig2Savefig \/ Fig2Close \/ Fig2Print

\* The line "Saved <filename>" for a file name.
SavedLineFor(name) ==
    CASE name = "fig_mirror_paradox.pdf" -> "Saved fig_mirror_paradox.pdf"
      [] name = "fig_distribution_change.pdf" -> "Saved fig_distribution_change.pdf"
      [] OTHER -> "Saved"

\* Two files hold the same document: they agree in everything but the
\* creation date.
SameDocument(a, b) ==
    /\ a.complete = b.complete
    /\ a.rc = b.rc
    /\ a.page = b.page

(***************************************************************************)
(* C1.  In fig1_mirror, S_B is the index-reversed copy of S_A: for every   *)
(* index i of the 800-point grid S_B[i] = S_A[799 - i], and reversing S_B  *)
(* gives back S_A.                                                         *)
(***************************************************************************)
C1_MirrorIsReverse ==
    Bound(S_B) =>
        /\ DOMAIN S_A = 0 .. 799
        /\ DOMAIN S_B = 0 .. 799
        /\ \A i \in 0 .. 799 : S_B[i] = S_A[799 - i]
        /\ [i \in 0 .. 799 |-> S_B[799 - i]] = S_A

\* fig1_mirror has built both curves, and they differ as arrays.
C1_Witness ==
    /\ pc = "f1_panel_a"
    /\ Bound(S_B)
    /\ S_B[0] = S_A[799]
    /\ S_B[0] # S_A[0]

(***************************************************************************)
(* C2.  In fig1_mirror the two curves have the same value at the midpoint  *)
(* index i0 = len(t) // 2 = 400: S_A[400] = S_B[400], so that S0 = S_A[i0] *)
(* is a value of both curves at that index.                                *)
(***************************************************************************)
C2_SharedMidpoint ==
    Bound(S_B) =>
        /\ i0 = 400
        /\ S0 = S_A[i0]
        /\ S_A[400] = S_B[400]

(***************************************************************************)
(* C3.  A run as main in which no save fails ends having written exactly   *)
(* the two files fig_mirror_paradox.pdf and fig_distribution_change.pdf,   *)
(* each once, the first before the second, and no other file; until it has  *)
(* ended the program can take its next step.                               *)
(***************************************************************************)
C3_TwoFilesInOrder ==
    /\ (asMain /\ ~Ended) => ENABLED ProgramStep
    /\ (asMain /\ Ended /\ ~Raised(Fig1) /\ ~Raised(Fig2)) =>
          /\ pc = "done"
          /\ SavedFiles = <<"fig_mirror_paradox.pdf", "fig_distribution_change.pdf">>
          /\ DOMAIN fs = DOMAIN fsAtStart
                           \cup {"fig_mirror_paradox.pdf", "fig_distribution_change.pdf"}
          /\ \A f \in DOMAIN fs :
                f \notin {"fig_mirror_paradox.pdf", "fig_distribution_change.pdf"}
                    => f \in DOMAIN fsAtStart /\ fs[f] = fsAtStart[f]
          /\ fs["fig_mirror_paradox.pdf"].complete
          /\ fs["fig_distribution_change.pdf"].complete

\* A run as main ended without failure in a directory that held neither
\* figure before.
C3_Witness ==
    /\ asMain /\ pc = "done" /\ run = 1
    /\ DOMAIN fsAtStart = {OtherFile}
    /\ DOMAIN fs = FileNames

(***************************************************************************)
(* C4.  One line "Saved <filename>" is printed per saved file, and only    *)
(* after the file's save completed: at every point the lines printed are   *)
(* the lines of the first files saved, in order, never more lines than     *)
(* files saved, and when a builder is not running there is one line for    *)
(* every file saved.                                                       *)
(***************************************************************************)
C4_SavedLines ==
    /\ Len(console) <= Len(SavedFiles)
    /\ \A k \in 1 .. Len(console) : console[k] = SavedLineFor(SavedFiles[k])
    /\ (pc \in {"call", "done", "crashed"}) => Len(console) = Len(SavedFiles)

\* Both files saved and both lines printed.
C4_Witness ==
    /\ pc = "done"
    /\ console = <<"Saved fig_mirror_paradox.pdf", "Saved fig_distribution_change.pdf">>

(***************************************************************************)
(* C5.  When the output directory is read-only, so that every save fails,  *)
(* a run as main ends with the failure raised in fig1_mirror and left      *)
(* uncaught, fig2_distribution is never called, no file is written and no  *)
(* "Saved" line is printed.                                                *)
(***************************************************************************)
C5_ReadOnlyDirectory ==
    (asMain /\ readOnly) =>
        /\ ~InFig2
        /\ EventsBy(Fig2) = <<>>
        /\ SavedFiles = <<>>
        /\ console = <<>>
        /\ fs = fsAtStart
        /\ pc # "done"
        /\ ~Ended => ENABLED ProgramStep
        /\ pc = "crashed" =>
              /\ trace[Len(trace)] = Event("raise", Fig1, "fig_mirror_paradox.pdf")
              /\ calls = <<Fig2>>
              /\ ~ENABLED ProgramStep

\* The run as main in a read-only directory has ended.
C5_Witness ==
    /\ asMain /\ readOnly /\ pc = "crashed"
    /\ Raised(Fig1)
    /\ fs = fsAtStart

(***************************************************************************)
(* C6 as stated.  Running the program twice in the same directory is       *)
(* idempotent: the second run overwrites both files, the set and contents  *)
(* of the output files after the second run equal those after the first,   *)
(* and the console messages of both runs are identical.                    *)
(***************************************************************************)
PrevRunOk == run > 1 /\ prevRun[1].ok

C6_SameContents ==
    (asMain /\ pc = "done" /\ PrevRunOk) =>
        /\ SavedFiles = <<"fig_mirror_paradox.pdf", "fig_distribution_change.pdf">>
        /\ fs = prevRun[1].fs
        /\ console = prevRun[1].console

(***************************************************************************)
(* C6 as amended.  A run as main that ends without failure has overwritten *)
(* both files, whether or not they existed; after a second such run the    *)
(* directory holds the same files, each the same document as after the     *)
(* first run up to its creation date (and so the same contents whenever    *)
(* the creation dates agree), and the console messages of both runs are    *)
(* identical.                                                              *)
(***************************************************************************)
C6_SameDocuments ==
    /\ (asMain /\ pc = "done") =>
          /\ SavedFiles = <<"fig_mirror_paradox.pdf", "fig_distribution_change.pdf">>
          /\ \A f \in {"fig_mirror_paradox.pdf", "fig_distribution_change.pdf"} :
                /\ f \in DOMAIN fs
                /\ fs[f].complete
                /\ fs[f].rc = "usetex"
                /\ fs[f].page # <<>>
    /\ (asMain /\ pc = "done" /\ PrevRunOk) =>
          /\ DOMAIN fs = DOMAIN prevRun[1].fs
          /\ \A f \in DOMAIN fs : SameDocument(fs[f], prevRun[1].fs[f])
          /\ (\A f \in DOMAIN fs : fs[f].created = prevRun[1].fs[f].created)
                => fs = prevRun[1].fs
          /\ console = prevRun[1].console

\* The second of two runs without failure has ended, in a directory that
\* held a stale figure before the first, and at a later time than the first.
C6_Witness ==
    /\ asMain /\ pc = "done" /\ PrevRunOk
    /\ fs[MirrorPdf].created > prevRun[1].fs[MirrorPdf].created
    /\ fs[DistributionPdf].page = prevRun[1].fs[DistributionPdf].page
    /\ console = <<Fig1Line, Fig2Line>>

(***************************************************************************)
(* C7.  The builders are independent: fig1_mirror writes only              *)
(* fig_mirror_paradox.pdf and fig2_distribution only                       *)
(* fig_distribution_change.pdf, each leaves every other file as it found   *)
(* it, no figure and no local is carried from one call to the next, and    *)
(* the document fig2_distribution saves is the one it draws on its own,    *)
(* whether or not fig1_mirror ran before it.                               *)
(***************************************************************************)
\* Every file but `name' is as the running builder found it.
OthersUntouched(name) ==
    \A f \in FileNames \ {name} :
        /\ f \in DOMAIN fs <=> f \in DOMAIN fsAtCall
        /\ f \in DOMAIN fs => fs[f] = fsAtCall[f]

\* The page fig2_distribution draws when it is the only call made.
Fig2AlonePage ==
    Fig2PanelAArtists(GridS, CurveP1, CurveP2, gauss(Mu1, Mu1, Sigma1),
                      FMul(Max(ArrMax(CurveP1), ArrMax(CurveP2)), Lit(135, 100)))
    \o Fig2PanelBArtists(GridSb, CurveP1b, CurveP2b,
                         FMul(Max(ArrMax(CurveP1b), ArrMax(CurveP2b)), Lit(14, 10)),
                         gauss(S_max, S_max, sigma_unc))

NothingCarried ==
    /\ DOMAIN figs = {}
    /\ fig = 0
    /\ \A a \in {t, S_A, S_B, S, P1, P2, S_b, P1b, P2b} : ~Bound(a)

C7_Independent ==
    /\ (InFig1 \/ (pc = "crashed" /\ Raised(Fig1)))
          => OthersUntouched("fig_mirror_paradox.pdf")
    /\ (InFig2 \/ (pc = "crashed" /\ Raised(Fig2)))
          => OthersUntouched("fig_distribution_change.pdf")
    /\ (pc \in {"call", "done"}) => NothingCarried
    /\ (\E k \in 1 .. Len(trace) : trace[k] = Event("savefig", Fig2, DistributionPdf))
          => /\ "fig_distribution_change.pdf" \in DOMAIN fs
             /\ fs["fig_distribution_change.pdf"].page = Fig2AlonePage
             /\ fs["fig_distribution_change.pdf"].rc = "usetex"
             /\ fs["fig_distribution_change.pdf"].complete

\* fig2_distribution ran first and fig1_mirror after it, both to the end,
\* in a directory that held a stale copy of each figure.
C7_Witness ==
    /\ ~asMain /\ pc = "done"
    /\ SavedFiles = <<DistributionPdf, MirrorPdf>>
    /\ DOMAIN fsAtStart = FileNames
    /\ fs[DistributionPdf].page = Fig2AlonePage

(***************************************************************************)
(* C8.  For every x, every mu and every sigma > 0,                         *)
(* gauss(mu, mu, sigma) >= gauss(x, mu, sigma): the density is greatest at *)
(* x = mu, so the peak values pk and pk_blue bound every sample of P1 and  *)
(* of P1b.                                                                 *)
(***************************************************************************)
C8_PeakIsMaximum ==
    probe.called => probe.val <= gauss(probe.mu, probe.mu, probe.sigma)

\* gauss was called away from its peak and returned less than the peak.
C8_Witness ==
    /\ probe.called
    /\ probe.x # probe.mu
    /\ 0 < probe.val
    /\ probe.val < gauss(probe.mu, probe.mu, probe.sigma)

(***************************************************************************)
(* C9.  There is no retry and no recovery: each builder attempts its save  *)
(* exactly once, and if the save of fig2_distribution fails after the save *)
(* of fig1_mirror succeeded, the program ends with the failure, while      *)
(* fig_mirror_paradox.pdf stays written, fig_distribution_change.pdf stays *)
(* as the failed save left it, and exactly the one line                    *)
(* "Saved fig_mirror_paradox.pdf" has been printed.                        *)
(***************************************************************************)
PastSave(by) ==
    \E k \in 1 .. Len(trace) :
        trace[k].by = by /\ trace[k].ev \in {"savefig", "raise", "close", "print"}

C9_NoRetryNoRecovery ==
    /\ \A by \in {Fig1, Fig2} :
          /\ SaveAttempts(by) <= 1
          /\ PastSave(by) => SaveAttempts(by) = 1
    /\ (asMain /\ Raised(Fig2)) =>
          /\ pc = "crashed"
          /\ ~ENABLED ProgramStep
          /\ "fig_mirror_paradox.pdf" \in DOMAIN fs
          /\ fs["fig_mirror_paradox.pdf"].complete
          /\ fs["fig_mirror_paradox.pdf"].rc = "usetex"
          /\ console = <<"Saved fig_mirror_paradox.pdf">>
          /\ \/ /\ "fig_distribution_change.pdf" \in DOMAIN fs
                /\ fs["fig_distribution_change.pdf"] = TruncatedPdf(clock)
             \/ /\ "fig_distribution_change.pdf" \in DOMAIN fs
                     <=> "fig_distribution_change.pdf" \in DOMAIN fsAtCall
                /\ "fig_distribution_change.pdf" \in DOMAIN fs
                     => fs["fig_distribution_change.pdf"]
                           = fsAtCall["fig_distribution_change.pdf"]

\* The save of fig2_distribution failed while writing, after fig1_mirror
\* had saved its figure.
C9_Witness ==
    /\ asMain /\ Raised(Fig2) /\ pc = "crashed"
    /\ fs[MirrorPdf].complete
    /\ ~fs[DistributionPdf].complete

(***************************************************************************)
(* C10.  At most one figure is open at any time; each builder creates its  *)
(* figure, saves it, closes it and then prints its line, in this order;    *)
(* the first figure is closed before the second is created; no figure is   *)
(* open when the program ends without failure; and a figure whose save     *)
(* failed is never closed.                                                 *)
(***************************************************************************)
IsPrefix(p, q) == Len(p) <= Len(q) /\ \A k \in 1 .. Len(p) : p[k] = q[k]

CountBefore(ev, k) ==
    Cardinality({j \in 1 .. k - 1 : trace[j].ev = ev})

C10_FigureLifecycle ==
    /\ Cardinality(DOMAIN figs) <= 1
    /\ \A by \in {Fig1, Fig2} :
          \/ IsPrefix(KindsBy(by), <<"figure", "savefig", "close", "print">>)
          \/ KindsBy(by) = <<"figure", "raise">>
    /\ \A k \in 1 .. Len(trace) :
          trace[k].ev = "figure" => CountBefore("figure", k) = CountBefore("close", k)
    /\ Cardinality(DOMAIN figs) = Len(EventsOf("figure")) - Len(EventsOf("close"))
    /\ pc = "done" => DOMAIN figs = {}
    /\ pc = "crashed" =>
          /\ DOMAIN figs = {fig}
          /\ trace[Len(trace)].ev = "raise"
          /\ ~ENABLED ProgramStep

\* The second figure is open, the first having been closed.
C10_Witness ==
    /\ pc = "f2_savefig"
    /\ DOMAIN figs = {fig}
    /\ KindsBy(Fig1) = <<"figure", "savefig", "close", "print">>
    /\ KindsBy(Fig2) = <<"figure">>

=============================================================================
